---- MODULE Spec2Model ----
(***************************************************************************)
(* The L-BFGS minimizer of cosmopp: the LBFGS wrapper class of             *)
(* include/lbfgs.hpp (vector, factory, objective binding, static callback  *)
(* forwarder) around the generic engine LBFGS_General, which the wrapper   *)
(* includes from lbfgs_general.hpp.  The engine is modelled from the       *)
(* specification's sections 4.3 - 4.5; the wrapper from its source.        *)
(*                                                                         *)
(* Real numbers are exact rationals <<num, den>> with den > 0 in lowest    *)
(* terms; a Euclidean norm is carried as its square, and ||v|| <= tol is   *)
(* decided as v.v <= tol^2.                                                *)
(***************************************************************************)
EXTENDS Integers, Sequences, FiniteSets, TLC

(* ------------------------------ bounds --------------------------------- *)
\* largest memory depth m, largest iteration cap maxIter, number of minimize calls
MaxM == 2
MaxIterCap == 3
MaxCalls == 2
\* contraction budget of one line search (section 4.4 leaves the number open)
MaxContractions == 3
\* PolyChord: largest number of parameters, setter calls, calls of run, likelihood
\* calls of the sampler in one run
MaxPar == 2
MaxSetCalls == 2
MaxRuns == 2
MaxLikes == 2
\* vectors one factory is asked for
MaxVectors == 3
\* set calls on one BasicLBFGSFunc, and value / derivative calls after one set
MaxSets == 2
MaxQueries == 3

(* --------------------------- evaluation order --------------------------- *)
\* C++ evaluates an argument once, before the call.  Bind1..Bind4 apply an operator
\* to the values of its arguments, so that an argument expression is evaluated once
\* however often the operator's body uses it.
TheOne(S) == CHOOSE r \in S : TRUE
Bind1(Op(_), a) == TheOne({Op(p[1]) : p \in {<<a>>}})
Bind2(Op(_, _), a, b) == TheOne({Op(p[1], p[2]) : p \in {<<a, b>>}})
Bind3(Op(_, _, _), a, b, c) == TheOne({Op(p[1], p[2], p[3]) : p \in {<<a, b, c>>}})
Bind4(Op(_, _, _, _), a, b, c, e) ==
    TheOne({Op(p[1], p[2], p[3], p[4]) : p \in {<<a, b, c, e>>}})

(* ----------------------------- rationals ------------------------------- *)
RECURSIVE GCD(_, _)
GCD(a, b) == IF b = 0 THEN a ELSE GCD(b, a % b)

IAbs(a) == IF a < 0 THEN -a ELSE a

RatOf(num, den) ==
    <<((IF den < 0 THEN -1 ELSE 1) * num) \div GCD(IAbs(num), IAbs(den)),
      ((IF den < 0 THEN -1 ELSE 1) * den) \div GCD(IAbs(num), IAbs(den))>>
Rat(num, den) == Bind2(RatOf, num, den)

Zero == <<0, 1>>
One == <<1, 1>>
MinusOne == <<-1, 1>>
Half == <<1, 2>>
RInt(i) == <<i, 1>>

AddOf(a, b) ==
    Rat(a[1] * (b[2] \div GCD(a[2], b[2])) + b[1] * (a[2] \div GCD(a[2], b[2])),
        (a[2] \div GCD(a[2], b[2])) * b[2])
RAdd(a, b) == Bind2(AddOf, a, b)

NegOf(a) == <<-a[1], a[2]>>
RNeg(a) == Bind1(NegOf, a)
RSub(a, b) == RAdd(a, RNeg(b))

MulOf(a, b) ==
    Rat((a[1] \div GCD(IAbs(a[1]), b[2])) * (b[1] \div GCD(IAbs(b[1]), a[2])),
        (a[2] \div GCD(IAbs(b[1]), a[2])) * (b[2] \div GCD(IAbs(a[1]), b[2])))
RMul(a, b) == Bind2(MulOf, a, b)

InvOf(a) == Rat(a[2], a[1])
RDiv(a, b) == RMul(a, Bind1(InvOf, b))

LeOf(a, b) == a[1] * (b[2] \div GCD(a[2], b[2])) <= b[1] * (a[2] \div GCD(a[2], b[2]))
RLe(a, b) == Bind2(LeOf, a, b)
RLt(a, b) == ~RLe(b, a)

AbsOf(a) == <<IAbs(a[1]), a[2]>>
RAbs(a) == Bind1(AbsOf, a)

MaxOf(a, b) == IF LeOf(a, b) THEN b ELSE a
RMax(a, b) == Bind2(MaxOf, a, b)

FloorOf(a) == a[1] \div a[2]
RFloor(a) == Bind1(FloorOf, a)

RECURSIVE Pow2(_)
Pow2(k) == IF k = 0 THEN 1 ELSE 2 * Pow2(k - 1)

(* ------------------ BasicLargeVector: sequences of reals ---------------- *)
\* BasicLargeVector(n): n elements, all 0
NewVector(len) == [i \in 1..len |-> Zero]

\* add(other, c): this += c * other
RECURSIVE AddUpTo(_, _, _, _)
AddUpTo(this, other, c, i) ==
    IF i = 0 THEN <<>>
    ELSE Append(AddUpTo(this, other, c, i - 1), RAdd(this[i], RMul(c, other[i])))
AddOfV(this, other, c) == AddUpTo(this, other, c, Len(this))
VAdd(this, other, c) == Bind3(AddOfV, this, other, c)

\* copy(other, c): this := c * other
RECURSIVE CopyUpTo(_, _, _)
CopyUpTo(other, c, i) ==
    IF i = 0 THEN <<>> ELSE Append(CopyUpTo(other, c, i - 1), RMul(c, other[i]))
CopyOfV(other, c) == CopyUpTo(other, c, Len(other))
VCopy(other, c) == Bind2(CopyOfV, other, c)

\* dotProduct(other)
RECURSIVE DotUpTo(_, _, _)
DotUpTo(a, b, i) ==
    IF i = 0 THEN Zero ELSE RAdd(DotUpTo(a, b, i - 1), RMul(a[i], b[i]))
DotOfV(a, b) == DotUpTo(a, b, Len(a))
DotProduct(a, b) == Bind2(DotOfV, a, b)

\* norm(), carried as its square
NormSq(a) == DotProduct(a, a)

(* ------------------- the caller's objective and gradient ---------------- *)
\* Objectives a caller can bind (RealFunctionMultiDim / RealFunctionMultiToMulti
\* are the caller's; the engine must cope with every one of them):
\*   quad    sum (x_i - i)^2 / 2, i from 0       (the scenario of section 8)
\*   steep   sum 2 x_i^2                        (needs two contractions)
\*   wall    sum 8 x_i^2                        (needs four contractions)
\*   decay   convex, piecewise linear, slope -2^-k on [k, k+1): never converges
\*   ramp    convex, slope -1 below 1 and -1/2 from 1 on: curvature only across
\*           the bend, zero curvature and no lower bound after it
\*   concave - sum x_i^2 / 2                    (negative curvature)
\*   kink    sum |x_i| with the gradient 1/2 reported on [0, 1): no descent at 0
Kinds == {"quad", "steep", "wall", "decay", "ramp", "concave", "kink"}

DecayKOf(xi) == IF FloorOf(xi) < 0 THEN 0 ELSE FloorOf(xi)

PhiOf(kind, i, xi) ==
    CASE kind = "quad" -> RMul(Half, RMul(RSub(xi, RInt(i - 1)), RSub(xi, RInt(i - 1))))
      [] kind = "steep" -> RMul(RInt(2), RMul(xi, xi))
      [] kind = "wall" -> RMul(RInt(8), RMul(xi, xi))
      [] kind = "decay" -> RMul(<<1, Pow2(DecayKOf(xi))>>,
                                RSub(RInt(2), RSub(xi, RInt(DecayKOf(xi)))))
      [] kind = "ramp" -> IF RLt(xi, One) THEN RSub(RInt(2), xi)
                          ELSE RSub(One, RMul(Half, RSub(xi, One)))
      [] kind = "concave" -> RNeg(RMul(Half, RMul(xi, xi)))
      [] kind = "kink" -> RAbs(xi)
Phi(kind, i, xi) == Bind3(PhiOf, kind, i, xi)

DPhiOf(kind, i, xi) ==
    CASE kind = "quad" -> RSub(xi, RInt(i - 1))
      [] kind = "steep" -> RMul(RInt(4), xi)
      [] kind = "wall" -> RMul(RInt(16), xi)
      [] kind = "decay" -> <<-1, Pow2(DecayKOf(xi))>>
      [] kind = "ramp" -> IF RLt(xi, One) THEN MinusOne ELSE <<-1, 2>>
      [] kind = "concave" -> RNeg(xi)
      [] kind = "kink" -> IF xi[1] < 0 THEN MinusOne
                          ELSE IF RLt(xi, One) THEN Half ELSE One
DPhi(kind, i, xi) == Bind3(DPhiOf, kind, i, xi)

RECURSIVE SumPhi(_, _, _)
SumPhi(kind, v, i) ==
    IF i = 0 THEN Zero ELSE RAdd(SumPhi(kind, v, i - 1), Phi(kind, i, v[i]))

\* f_.evaluate(x_)
EvaluateOf(kind, v) == SumPhi(kind, v, Len(v))
Evaluate(kind, v) == Bind2(EvaluateOf, kind, v)

RECURSIVE GradUpTo(_, _, _)
GradUpTo(kind, v, i) ==
    IF i = 0 THEN <<>> ELSE Append(GradUpTo(kind, v, i - 1), DPhi(kind, i, v[i]))

\* grad_.evaluate(x_, &res)
EvaluateGradOf(kind, v) == GradUpTo(kind, v, Len(v))
EvaluateGrad(kind, v) == Bind2(EvaluateGradOf, kind, v)

(* --------------------- constants of the engine -------------------------- *)
\* sufficient-decrease constant c1 = 1e-4 of the Armijo condition (section 4.4)
ArmijoC1 == <<1, 10000>>
\* contraction factor 0.5 of the backtracking line search (section 4.4)
ContractionFactor == Half
\* curvature threshold of the insertion policy (section 4.3)
CurvatureEps == <<1, 1000000>>

(* ------------------------------ inputs ---------------------------------- *)
Dims == 0..2
MemoryDepths == 1..MaxM
StartVectors == {<<>>, <<One>>, <<One, One>>, <<Zero, One>>}
Epsilons == {<<1, 1000>>, Half}
GNormTols == {<<1, 1000>>, Half}
MaxIters == 1..MaxIterCap
Callbacks == {"NULL", "printIter"}

Terminal == {"Converged", "MaxIterExceeded", "LineSearchFailed", "DimensionError"}
States == {"Initializing", "Iterating"} \cup Terminal

NoCall == [epsilon |-> Zero, gNormTol |-> Zero, maxIter |-> 0, callback |-> "NULL"]
NoParams == [epsilon |-> Zero, gNormTol |-> Zero, maxIter |-> 0]
NoReport == [val |-> Zero, res |-> <<>>, state |-> "none"]
NoCb == [it |-> 0, f |-> Zero, gn |-> Zero, v |-> <<>>]

VARIABLES
    obj,        \* LBFGS::f_ : the objective and gradient bound at construction
    n,          \* BasicLargeVectorFactory::n_
    m,          \* memory depth handed to the engine
    starting,   \* the vector the caller last passed to the constructor / setStarting
    s_,         \* contents of LBFGS::s_
    start,      \* the engine's starting point
    cb_,        \* static LBFGS::cb_
    fx_,        \* BasicLBFGSFunc::x_
    pc,         \* position of the caller in LBFGS::minimize
    call,       \* arguments of the minimize call in progress
    params,     \* what the wrapper handed to the engine
    state,      \* engine state (section 4.5)
    step,       \* position inside the iteration
    x, g, f,    \* OptimizerState: iterate, gradient, value
    fOld,       \* value before the last accepted step
    iter,       \* iteration counter
    hist,       \* HistoryBuffer, oldest entry first
    d,          \* search direction
    t, k,       \* trial step and number of contractions so far
    fTrial,     \* value at the accepted trial point
    res,        \* the caller's output vector
    ret,        \* what the last minimize call returned
    cbCount,    \* invocations of the user callback during the run
    lastCb,     \* arguments of the last user callback invocation
    notified,   \* progress notifications the engine emitted during the run
    inserted,   \* pairs inserted into the history during the run, in order
    accepted,   \* steps accepted during the run
    evals,      \* objective and gradient evaluations during the run
    calls,      \* minimize calls made so far
    lastReport  \* what the previous minimize call handed back, and how it ended

local == <<x, g, f, fOld, iter, hist, d, t, k, fTrial, step>>
ghost == <<cbCount, lastCb, notified, inserted, accepted, evals>>
\* every variable of the LBFGS object and its run except the bound objective and x_
lbfgsButCb == <<n, m, starting, s_, start, pc, call, params, state, res, ret,
                calls, lastReport, local, ghost>>
lbfgsOther == <<cb_, lbfgsButCb>>

(* ------------- BasicLBFGSFunc used on its own (set / value / derivative) ---- *)
VARIABLES
    arg,        \* contents of the caller's BasicLargeVector, the argument of set
    out,        \* contents of the vector handed to derivative
    lastSet,    \* the contents passed to the most recent set
    sets,       \* set calls made so far
    queries,    \* value and derivative calls since the most recent set
    vals,       \* the values value() returned since the most recent set
    grads       \* the gradients derivative() filled in since the most recent set

funcVars == <<arg, out, lastSet, sets, queries, vals, grads>>
FuncIdle ==
    /\ arg = <<>> /\ out = <<>> /\ lastSet = <<>> /\ sets = 0 /\ queries = 0
    /\ vals = {} /\ grads = {}

(* ------------- BasicLargeVectorFactory used on its own (giveMeOne) ---------- *)
VARIABLES
    factory_n,  \* BasicLargeVectorFactory::n_ of the factory under test
    heap,       \* the BasicLargeVector objects created so far: address -> contents
    returned    \* the addresses giveMeOne returned, in order

facVars == <<factory_n, heap, returned>>
FacIdle == factory_n = 0 /\ heap = <<>> /\ returned = <<>>

(* ---------------------- PolyChord (source/polychord.cpp) -------------------- *)
VARIABLES
    running_,           \* static PolyChord::running_
    myPolyChordScanner, \* the file-scope pointer: 0 is the null pointer, else an instance
    poly,               \* the PolyChord objects: instance -> its members
    stack,              \* the calls of run in progress, outermost first
    runs,               \* calls of run made so far
    setCalls,           \* calls of setParam, setParamFixed, setParamGauss made so far
    rejected,           \* calls of run that failed at the guard
    lastRejected,       \* the instance of the last such call
    lastSetter          \* the last setter call and whether its checks passed

polyVars == <<running_, myPolyChordScanner, poly, stack, runs, setCalls, rejected,
              lastRejected, lastSetter>>
NoSetter == [inst |-> 0, i |-> 0, kind |-> "none", a |-> 0, b |-> 0, ok |-> FALSE]
PolyIdle ==
    /\ running_ = FALSE /\ myPolyChordScanner = 0
    /\ poly = <<>> /\ stack = <<>>
    /\ runs = 0 /\ setCalls = 0 /\ rejected = 0 /\ lastRejected = 0
    /\ lastSetter = NoSetter

(* ---------------- the lbfgs_test driver (source/lbfgs_test.cpp) ------------- *)
VARIABLES
    argv,       \* the command line after the program name: <<>> or <<argv[1]>>
    procs,      \* the processes of the run: processId -> its locals and position
    toRoot,     \* per process: the reduce contributions sent to the master, not yet summed
    fromRoot    \* per process: the values the master broadcast to it, not yet received

drvVars == <<argv, procs, toRoot, fromRoot>>
DrvIdle == argv = <<>> /\ procs = <<>> /\ toRoot = <<>> /\ fromRoot = <<>>

(* ---------------- several LBFGS objects and nested minimize calls ----------- *)
VARIABLES
    callStack,      \* the minimize calls in progress, outermost first
    deliveries,     \* per notification the engine emitted: the callback passed to the
                    \* call that emitted it, and the callback myCallBack invoked
    minimizeCalls   \* minimize calls made so far

nestVars == <<callStack, deliveries, minimizeCalls>>
NestIdle == callStack = <<>> /\ deliveries = {} /\ minimizeCalls = 0

(* ---------------------- Parser (source/parser.cpp) --------------------------- *)
VARIABLES
    parser,       \* the Parser object: the map key -> stored string
    lastGet,      \* the last getter call: its arguments, the map before it, its outcome
    firstStored   \* per key, the string stored under it first

parserVars == <<parser, lastGet, firstStored>>
EmptyMap == [q \in {} |-> <<>>]
NoGet == [op |-> "none", key |-> "", def |-> 0, before |-> EmptyMap, threw |-> FALSE,
          ret |-> 0]
ParserIdle == parser = EmptyMap /\ lastGet = NoGet /\ firstStored = EmptyMap

aux == <<funcVars, facVars, polyVars, drvVars, nestVars, parserVars>>
AuxIdle == FuncIdle /\ FacIdle /\ PolyIdle /\ DrvIdle /\ NestIdle /\ ParserIdle
auxButFunc == <<facVars, polyVars, drvVars, nestVars, parserVars>>
IdleButFunc == FacIdle /\ PolyIdle /\ DrvIdle /\ NestIdle /\ ParserIdle
auxButFac == <<funcVars, polyVars, drvVars, nestVars, parserVars>>
IdleButFac == FuncIdle /\ PolyIdle /\ DrvIdle /\ NestIdle /\ ParserIdle
auxButPoly == <<funcVars, facVars, drvVars, nestVars, parserVars>>
IdleButPoly == FuncIdle /\ FacIdle /\ DrvIdle /\ NestIdle /\ ParserIdle
auxButDrv == <<funcVars, facVars, polyVars, nestVars, parserVars>>
IdleButDrv == FuncIdle /\ FacIdle /\ PolyIdle /\ NestIdle /\ ParserIdle
auxButNest == <<funcVars, facVars, polyVars, drvVars, parserVars>>
IdleButNest == FuncIdle /\ FacIdle /\ PolyIdle /\ DrvIdle /\ ParserIdle
auxButParser == <<funcVars, facVars, polyVars, drvVars, nestVars>>
IdleButParser == FuncIdle /\ FacIdle /\ PolyIdle /\ DrvIdle /\ NestIdle

vars == <<obj, n, m, starting, s_, start, cb_, fx_, pc, call, params, state, step,
          x, g, f, fOld, iter, hist, d, t, k, fTrial, res, ret, cbCount, lastCb,
          notified, inserted, accepted, evals, calls, lastReport, aux>>

(* ------------------------- HistoryBuffer (4.3) -------------------------- *)
EntryOf(s, y) == [s |-> s, y |-> y, rho |-> RDiv(One, DotProduct(y, s))]
Entry(s, y) == Bind2(EntryOf, s, y)

\* insertion policy: a pair whose curvature s.y is not above the threshold is rejected
CurvatureOK_NoCheck(s, y) == DotProduct(s, y)[1] # 0
CurvatureOK(s, y) == RLt(CurvatureEps, DotProduct(s, y))

\* insert, evicting the oldest entry at capacity
InsertOf(h, e, cap) == IF Len(h) >= cap THEN Append(Tail(h), e) ELSE Append(h, e)
HistoryInsert_EvictNewest(h, e, cap) ==
    IF Len(h) >= cap THEN Append(SubSeq(h, 1, Len(h) - 1), e) ELSE Append(h, e)
HistoryInsert(h, e, cap) == Bind3(InsertOf, h, e, cap)

UpdateOf(h, s, y, cap) ==
    IF CurvatureOK(s, y) THEN HistoryInsert(h, Entry(s, y), cap) ELSE h
UpdateHistory(h, s, y, cap) == Bind4(UpdateOf, h, s, y, cap)

\* first loop, most recent pair to oldest: q and the alphas, indexed as the pairs
RECURSIVE FirstLoop(_, _, _)
FirstLoopOf(h, q, i) ==
    IF i = 0 THEN [q |-> q, alpha |-> <<>>]
    ELSE LET step1(a) == LET rest == FirstLoop(h, VAdd(q, h[i].y, RNeg(a)), i - 1)
                         IN  [q |-> rest.q, alpha |-> Append(rest.alpha, a)]
         IN  Bind1(step1, RMul(h[i].rho, DotProduct(h[i].s, q)))
FirstLoop(h, q, i) == Bind3(FirstLoopOf, h, q, i)

\* initial scaling
GammaOf(h) ==
    IF Len(h) = 0 THEN One
    ELSE RDiv(DotProduct(h[Len(h)].s, h[Len(h)].y), DotProduct(h[Len(h)].y, h[Len(h)].y))
Gamma(h) == Bind1(GammaOf, h)

\* second loop, oldest pair to most recent
RECURSIVE SecondLoop(_, _, _, _)
SecondLoopOf(h, alpha, r, i) ==
    IF i > Len(h) THEN r
    ELSE SecondLoop(h, alpha,
                    VAdd(r, h[i].s, RSub(alpha[i], RMul(h[i].rho, DotProduct(h[i].y, r)))),
                    i + 1)
SecondLoop(h, alpha, r, i) == Bind4(SecondLoopOf, h, alpha, r, i)

\* the two-loop recursion: direction = -r
DirectionOf(h, grad) ==
    LET second(one) == SecondLoop(h, one.alpha, VCopy(one.q, Gamma(h)), 1)
    IN  VCopy(Bind1(second, FirstLoop(h, grad, Len(h))), MinusOne)
Direction(h, grad) == Bind2(DirectionOf, h, grad)

(* --------------------------- LineSearch (4.4) --------------------------- *)
\* sufficient decrease: f(x + t d) <= f0 + c1 t (g0 . d)
Armijo_NoDecrease(fNew, f0, tt, gd) == RLe(fNew, RAdd(f0, One))
Armijo(fNew, f0, tt, gd) == RLe(fNew, RAdd(f0, RMul(ArmijoC1, RMul(tt, gd))))

\* the point a failed line search leaves as the current iterate
FailurePoint_LastTrial(cur, trial) == trial
FailurePoint(cur, trial) == cur

\* the contraction budget is used up after MaxContractions contractions
BudgetLeft(kk) == kk < MaxContractions

(* ------------------------- LBFGSEngine (4.5) ---------------------------- *)
\* a zero-dimensional or mismatched-dimension starting vector is a DimensionError
DimensionOK(v, nn) == Len(v) # 0 /\ Len(v) = nn

\* convergence: ||g_new|| <= gNormTol or |f_new - f_old| <= epsilon max(1, |f_old|)
StopCriterion(gNew, fNew, fPrev, eps, tol) ==
    \/ RLe(NormSq(gNew), RMul(tol, tol))
    \/ RLe(RAbs(RSub(fNew, fPrev)), RMul(eps, RMax(One, RAbs(fPrev))))

\* the iteration counter has reached the cap
CapReached(it, cap) == it >= cap

(* ------------------------- the LBFGS wrapper ---------------------------- *)
\* s_->contents() = starting : the vector takes the length and elements of starting
AssignContents_KeepSize(vec, contents) ==
    [i \in 1..Len(vec) |-> IF i <= Len(contents) THEN contents[i] ELSE Zero]
AssignContents(vec, contents) == contents

\* LBFGS(n, f, grad, starting, m)
Init ==
    /\ obj \in Kinds
    /\ n \in Dims
    /\ m \in MemoryDepths
    /\ starting \in StartVectors
    /\ s_ = AssignContents(NewVector(n), starting)
    /\ start = s_
    /\ cb_ = "NULL"
    /\ fx_ = <<>>
    /\ pc = "idle"
    /\ call = NoCall
    /\ params = NoParams
    /\ state = "Initializing"
    /\ step = "none"
    /\ x = <<>> /\ g = <<>> /\ f = Zero /\ fOld = Zero
    /\ iter = 0
    /\ hist = <<>>
    /\ d = <<>> /\ t = One /\ k = 0 /\ fTrial = Zero
    /\ res = <<>>
    /\ ret = Zero
    /\ cbCount = 0 /\ lastCb = NoCb /\ notified = 0
    /\ inserted = <<>> /\ accepted = 0 /\ evals = 0
    /\ calls = 0
    /\ lastReport = NoReport
    /\ AuxIdle

ClearLocal ==
    /\ x' = <<>> /\ g' = <<>> /\ f' = Zero /\ fOld' = Zero
    /\ iter' = 0 /\ hist' = <<>>
    /\ d' = <<>> /\ t' = One /\ k' = 0 /\ fTrial' = Zero
    /\ step' = "none"

\* LBFGS::setStarting(starting)
SetStarting ==
    /\ pc # "running"
    /\ calls < MaxCalls
    /\ \E v \in StartVectors :
        /\ starting' = v
        /\ s_' = AssignContents(s_, v)
        /\ start' = AssignContents(s_, v)
    /\ pc' = "idle"
    /\ UNCHANGED <<obj, n, m, cb_, fx_, call, params, state, res, ret, calls,
                   lastReport>>
    /\ UNCHANGED local
    /\ UNCHANGED ghost
    /\ UNCHANGED aux

\* what LBFGS::minimize hands to the engine's minimize
PassArgs_CapPlusOne(c) ==
    [epsilon |-> c.epsilon, gNormTol |-> c.gNormTol, maxIter |-> c.maxIter + 1]
PassArgs_SwapTol(c) ==
    [epsilon |-> c.gNormTol, gNormTol |-> c.epsilon, maxIter |-> c.maxIter]
PassArgs(c) == [epsilon |-> c.epsilon, gNormTol |-> c.gNormTol, maxIter |-> c.maxIter]

\* LBFGS::minimize, entry: cb_ = callback; lbfgs_->minimize(s_, epsilon, gNormTol, maxIter, myCallBack)
MinimizeCall_KeepCb ==
    /\ pc # "running"
    /\ calls < MaxCalls
    /\ \E eps \in Epsilons, tol \in GNormTols, mi \in MaxIters, cb \in Callbacks :
        LET c == [epsilon |-> eps, gNormTol |-> tol, maxIter |-> mi, callback |-> cb]
        IN  /\ call' = c
            /\ cb_' = IF cb = "NULL" THEN cb_ ELSE cb
            /\ params' = PassArgs(c)
    /\ pc' = "running"
    /\ state' = "Initializing"
    /\ calls' = calls + 1
    /\ lastReport' = IF calls = 0 THEN NoReport
                     ELSE [val |-> ret, res |-> res, state |-> state]
    /\ cbCount' = 0 /\ lastCb' = NoCb /\ notified' = 0
    /\ inserted' = <<>> /\ accepted' = 0 /\ evals' = 0
    /\ UNCHANGED <<obj, n, m, starting, s_, start, fx_, res, ret>>
    /\ UNCHANGED local
    /\ UNCHANGED aux
MinimizeCall ==
    /\ pc # "running"
    /\ calls < MaxCalls
    /\ \E eps \in Epsilons, tol \in GNormTols, mi \in MaxIters, cb \in Callbacks :
        LET c == [epsilon |-> eps, gNormTol |-> tol, maxIter |-> mi, callback |-> cb]
        IN  /\ call' = c
            /\ cb_' = cb
            /\ params' = PassArgs(c)
    /\ pc' = "running"
    /\ state' = "Initializing"
    /\ calls' = calls + 1
    /\ lastReport' = IF calls = 0 THEN NoReport
                     ELSE [val |-> ret, res |-> res, state |-> state]
    /\ cbCount' = 0 /\ lastCb' = NoCb /\ notified' = 0
    /\ inserted' = <<>> /\ accepted' = 0 /\ evals' = 0
    /\ UNCHANGED <<obj, n, m, starting, s_, start, fx_, res, ret>>
    /\ UNCHANGED local
    /\ UNCHANGED aux

(* ------------------------------ the engine ------------------------------ *)
\* Initializing: the dimension check, then the first value and gradient
EngineInitialize ==
    /\ pc = "running"
    /\ state = "Initializing"
    /\ IF DimensionOK(start, n)
       THEN /\ fx_' = start
            /\ x' = start
            /\ f' = Evaluate(obj, start)
            /\ g' = EvaluateGrad(obj, start)
            /\ evals' = evals + 2
            /\ state' = "Iterating"
            /\ step' = "direction"
       ELSE /\ state' = "DimensionError"
            /\ UNCHANGED <<fx_, x, f, g, evals, step>>
    /\ UNCHANGED <<obj, n, m, starting, s_, start, cb_, pc, call, params, fOld, iter,
                   hist, d, t, k, fTrial, res, ret, cbCount, lastCb, notified, inserted,
                   accepted, calls, lastReport>>
    /\ UNCHANGED aux

\* step 1: the direction from the history, and the first trial step t = 1
ComputeDirection ==
    /\ pc = "running"
    /\ state = "Iterating"
    /\ step = "direction"
    /\ d' = Direction(hist, g)
    /\ t' = One
    /\ k' = 0
    /\ step' = "linesearch"
    /\ UNCHANGED <<obj, n, m, starting, s_, start, cb_, fx_, pc, call, params, state,
                   x, g, f, fOld, iter, hist, fTrial, res, ret, calls, lastReport>>
    /\ UNCHANGED ghost
    /\ UNCHANGED aux

\* step 2: one trial of the backtracking line search
LineSearchTrial ==
    /\ pc = "running"
    /\ state = "Iterating"
    /\ step = "linesearch"
    /\ evals' = evals + 1
    /\ \E trial \in {VAdd(x, d, t)} : \E ft \in {Evaluate(obj, trial)} :
           /\ fx_' = trial
           /\ IF Armijo(ft, f, t, DotProduct(g, d))
              THEN /\ fTrial' = ft
                   /\ step' = "accept"
                   /\ UNCHANGED <<t, k, state, s_, x>>
              ELSE IF BudgetLeft(k)
              THEN /\ t' = RMul(t, ContractionFactor)
                   /\ k' = k + 1
                   /\ UNCHANGED <<fTrial, step, state, s_, x>>
              ELSE /\ state' = "LineSearchFailed"
                   /\ x' = FailurePoint(x, trial)
                   /\ s_' = FailurePoint(x, trial)
                   /\ step' = "done"
                   /\ UNCHANGED <<fTrial, t, k>>
    /\ UNCHANGED <<obj, n, m, starting, start, cb_, pc, call, params, g, f, fOld,
                   iter, hist, d, res, ret, cbCount, lastCb, notified, inserted,
                   accepted, calls, lastReport>>
    /\ UNCHANGED aux

\* step 3: accept x_new = x + t d, evaluate g_new once, update the history
AcceptStep ==
    /\ pc = "running"
    /\ state = "Iterating"
    /\ step = "accept"
    /\ \E xNew \in {VAdd(x, d, t)}, gNew \in {EvaluateGrad(obj, fx_)} :
       \E s \in {VAdd(xNew, x, MinusOne)}, y \in {VAdd(gNew, g, MinusOne)} :
           /\ x' = xNew
           /\ g' = gNew
           /\ hist' = UpdateHistory(hist, s, y, m)
           /\ inserted' = IF RLt(CurvatureEps, DotProduct(s, y))
                           THEN Append(inserted, Entry(s, y)) ELSE inserted
    /\ fOld' = f
    /\ f' = fTrial
    /\ iter' = iter + 1
    /\ accepted' = accepted + 1
    /\ evals' = evals + 1
    /\ step' = "callback"
    /\ UNCHANGED <<obj, n, m, starting, s_, start, cb_, fx_, pc, call, params, state,
                   d, t, k, fTrial, res, ret, cbCount, lastCb, notified, calls,
                   lastReport>>
    /\ UNCHANGED aux

\* LBFGS::myCallBack(it, f, gn, v): forwards to cb_ unless it is NULL
MyCallBack_SwapArgs(it, fv, gn, v) ==
    IF cb_ # "NULL"
    THEN /\ cbCount' = cbCount + 1
         /\ lastCb' = [it |-> it, f |-> gn, gn |-> fv, v |-> v]
    ELSE UNCHANGED <<cbCount, lastCb>>
MyCallBack(it, fv, gn, v) ==
    IF cb_ # "NULL"
    THEN /\ cbCount' = cbCount + 1
         /\ lastCb' = [it |-> it, f |-> fv, gn |-> gn, v |-> v]
    ELSE UNCHANGED <<cbCount, lastCb>>

\* step 4: the progress notification
ProgressCallback ==
    /\ pc = "running"
    /\ state = "Iterating"
    /\ step = "callback"
    /\ notified' = notified + 1
    /\ MyCallBack(iter, f, NormSq(g), x)
    /\ step' = "check"
    /\ UNCHANGED <<obj, n, m, starting, s_, start, cb_, fx_, pc, call, params, state,
                   x, g, f, fOld, iter, hist, d, t, k, fTrial, res, ret, inserted,
                   accepted, evals, calls, lastReport>>
    /\ UNCHANGED aux

\* step 5: convergence, then the iteration cap
CheckConvergence ==
    /\ pc = "running"
    /\ state = "Iterating"
    /\ step = "check"
    /\ IF StopCriterion(g, f, fOld, params.epsilon, params.gNormTol)
       THEN /\ state' = "Converged"
            /\ s_' = x
            /\ step' = "done"
       ELSE IF CapReached(iter, params.maxIter)
       THEN /\ state' = "MaxIterExceeded"
            /\ s_' = x
            /\ step' = "done"
       ELSE /\ step' = "direction"
            /\ UNCHANGED <<state, s_>>
    /\ UNCHANGED <<obj, n, m, starting, start, cb_, fx_, pc, call, params, x, g, f,
                   fOld, iter, hist, d, t, k, fTrial, res, ret, calls, lastReport>>
    /\ UNCHANGED ghost
    /\ UNCHANGED aux

EngineStep ==
    \/ EngineInitialize
    \/ ComputeDirection
    \/ LineSearchTrial
    \/ AcceptStep
    \/ ProgressCallback
    \/ CheckConvergence

MinimizeReturn_Reevaluate ==
    /\ pc = "running"
    /\ state \in Terminal \ {"DimensionError"}
    /\ res' = s_
    /\ fx_' = s_
    /\ evals' = evals + 1
    /\ ret' = Evaluate(obj, s_)
    /\ pc' = "returned"
    /\ call' = NoCall
    /\ params' = NoParams
    /\ ClearLocal
    /\ UNCHANGED <<obj, n, m, starting, s_, start, cb_, state, calls, lastReport>>
    /\ UNCHANGED <<cbCount, lastCb, notified, inserted, accepted>>
    /\ UNCHANGED aux
MinimizeReturn_NoCopy ==
    /\ pc = "running"
    /\ state \in Terminal \ {"DimensionError"}
    /\ ret' = f
    /\ pc' = "returned"
    /\ call' = NoCall
    /\ params' = NoParams
    /\ ClearLocal
    /\ UNCHANGED <<obj, n, m, starting, s_, start, cb_, fx_, state, calls, lastReport,
                   res>>
    /\ UNCHANGED ghost
    /\ UNCHANGED aux
\* LBFGS::minimize, exit: (*res) = s_->contents(); return val
MinimizeReturn ==
    /\ pc = "running"
    /\ state \in Terminal \ {"DimensionError"}
    /\ res' = s_
    /\ ret' = f
    /\ pc' = "returned"
    /\ call' = NoCall
    /\ params' = NoParams
    /\ ClearLocal
    /\ UNCHANGED <<obj, n, m, starting, s_, start, cb_, fx_, state, calls, lastReport>>
    /\ UNCHANGED ghost
    /\ UNCHANGED aux

\* LBFGS::minimize left by the engine's DimensionMismatch: nothing is copied
MinimizeThrow ==
    /\ pc = "running"
    /\ state = "DimensionError"
    /\ pc' = "thrown"
    /\ call' = NoCall
    /\ params' = NoParams
    /\ ClearLocal
    /\ UNCHANGED <<obj, n, m, starting, s_, start, cb_, fx_, state, res, ret, calls,
                   lastReport>>
    /\ UNCHANGED ghost
    /\ UNCHANGED aux

Next ==
    \/ SetStarting
    \/ MinimizeCall
    \/ EngineInitialize
    \/ ComputeDirection
    \/ LineSearchTrial
    \/ AcceptStep
    \/ ProgressCallback
    \/ CheckConvergence
    \/ MinimizeReturn
    \/ MinimizeThrow

Spec == Init /\ [][Next]_vars

\* one minimize call on a newly constructed LBFGS, for every construction, every
\* starting vector and every argument of the call
FirstSetStarting == calls = 0 /\ SetStarting
FirstMinimizeCall == calls = 0 /\ MinimizeCall
OneCall ==
    \/ FirstSetStarting
    \/ FirstMinimizeCall
    \/ EngineInitialize
    \/ ComputeDirection
    \/ LineSearchTrial
    \/ AcceptStep
    \/ ProgressCallback
    \/ CheckConvergence
    \/ MinimizeReturn
    \/ MinimizeThrow

\* the engine is synchronous and single-threaded: a call in progress keeps executing
\* until it ends
FairSpec ==
    /\ Init /\ [][OneCall]_vars
    /\ WF_vars(EngineStep) /\ WF_vars(MinimizeReturn) /\ WF_vars(MinimizeThrow)

TypeOK ==
    /\ state \in States
    /\ pc \in {"idle", "running", "returned", "thrown"}
    /\ step \in {"none", "direction", "linesearch", "accept", "callback", "check", "done"}
    /\ calls \in 0..MaxCalls

(* -------------------- BasicLBFGSFunc on its own -------------------------- *)
\* no LBFGS object: the variables of the wrapper and of its run at rest
LbfgsAbsent ==
    /\ n = 0 /\ m = 1
    /\ starting = <<>> /\ s_ = <<>> /\ start = <<>>
    /\ cb_ = "NULL"
    /\ pc = "idle"
    /\ call = NoCall
    /\ params = NoParams
    /\ state = "Initializing"
    /\ step = "none"
    /\ x = <<>> /\ g = <<>> /\ f = Zero /\ fOld = Zero
    /\ iter = 0
    /\ hist = <<>>
    /\ d = <<>> /\ t = One /\ k = 0 /\ fTrial = Zero
    /\ res = <<>>
    /\ ret = Zero
    /\ cbCount = 0 /\ lastCb = NoCb /\ notified = 0
    /\ inserted = <<>> /\ accepted = 0 /\ evals = 0
    /\ calls = 0
    /\ lastReport = NoReport

\* the points a caller evaluates at
FuncPoints == {<<Zero>>, <<One>>, <<Zero, One>>, <<One, One>>}

\* BasicLBFGSFunc(f, grad): x_ is empty until the first set
FuncInit ==
    /\ obj \in Kinds
    /\ fx_ = <<>>
    /\ LbfgsAbsent
    /\ FuncIdle
    /\ IdleButFunc

\* the caller fills or changes its own vector
CallerAssign ==
    /\ \E v \in FuncPoints : arg' = v
    /\ UNCHANGED <<obj, fx_, out, lastSet, sets, queries, vals, grads>>
    /\ UNCHANGED lbfgsOther
    /\ UNCHANGED auxButFunc

\* x_ = x.contents() : a copy of the elements
StorePoint_KeepFirst(old, contents) == IF old = <<>> THEN contents ELSE old
StorePoint(old, contents) == contents

\* set(x)
FuncSet ==
    /\ sets < MaxSets
    /\ fx_' = StorePoint(fx_, arg)
    /\ lastSet' = arg
    /\ sets' = sets + 1
    /\ queries' = 0
    /\ vals' = {}
    /\ grads' = {}
    /\ UNCHANGED <<obj, arg, out>>
    /\ UNCHANGED lbfgsOther
    /\ UNCHANGED auxButFunc

\* value() : f_.evaluate(x_)
FuncValue ==
    /\ queries < MaxQueries
    /\ queries' = queries + 1
    /\ vals' = vals \cup {Evaluate(obj, fx_)}
    /\ UNCHANGED <<obj, fx_, arg, out, lastSet, sets, grads>>
    /\ UNCHANGED lbfgsOther
    /\ UNCHANGED auxButFunc

\* derivative(res) : grad_.evaluate(x_, &(res->contents())); res is any vector of the
\* caller, the one it passed to set included
FuncDerivative_Clobber ==
    /\ queries < MaxQueries
    /\ queries' = queries + 1
    /\ \E gr \in {EvaluateGrad(obj, fx_)} :
        /\ grads' = grads \cup {gr}
        /\ fx_' = gr
        /\ \/ out' = gr /\ arg' = arg
           \/ arg' = gr /\ out' = out
    /\ UNCHANGED <<obj, lastSet, sets, vals>>
    /\ UNCHANGED lbfgsOther
    /\ UNCHANGED auxButFunc
FuncDerivative ==
    /\ queries < MaxQueries
    /\ queries' = queries + 1
    /\ \E gr \in {EvaluateGrad(obj, fx_)} :
        /\ grads' = grads \cup {gr}
        /\ \/ out' = gr /\ arg' = arg
           \/ arg' = gr /\ out' = out
    /\ UNCHANGED <<obj, fx_, lastSet, sets, vals>>
    /\ UNCHANGED lbfgsOther
    /\ UNCHANGED auxButFunc

FuncNext ==
    \/ CallerAssign
    \/ FuncSet
    \/ FuncValue
    \/ FuncDerivative

FuncSpec == FuncInit /\ [][FuncNext]_vars

(* ---------------- BasicLargeVectorFactory on its own --------------------- *)
\* BasicLargeVectorFactory(n), check(n_ >= 0)
FactoryInit ==
    /\ factory_n \in Dims
    /\ heap = <<>>
    /\ returned = <<>>
    /\ obj = "quad" /\ fx_ = <<>>
    /\ LbfgsAbsent
    /\ IdleButFac

\* new : the address of storage no live object occupies
NewAddress_Reuse(h) == IF Len(h) = 0 THEN 1 ELSE Len(h)
NewAddress(h) == Len(h) + 1

\* an object constructed at an address
Construct(h, a, v) ==
    [b \in 1..(IF a > Len(h) THEN a ELSE Len(h)) |-> IF b = a THEN v ELSE h[b]]

\* giveMeOne() : return new BasicLargeVector(n_)
GiveMeOne ==
    /\ Len(returned) < MaxVectors
    /\ \E a \in {NewAddress(heap)} :
        /\ heap' = Construct(heap, a, NewVector(factory_n))
        /\ returned' = Append(returned, a)
    /\ UNCHANGED factory_n
    /\ UNCHANGED <<obj, fx_>>
    /\ UNCHANGED lbfgsOther
    /\ UNCHANGED auxButFac

\* the caller writes one of the vectors it was given: contents() = v
VectorWrite ==
    /\ \E a \in DOMAIN heap, v \in StartVectors :
        heap' = [heap EXCEPT ![a] = AssignContents(heap[a], v)]
    /\ UNCHANGED <<factory_n, returned>>
    /\ UNCHANGED <<obj, fx_>>
    /\ UNCHANGED lbfgsOther
    /\ UNCHANGED auxButFac

FactoryNext ==
    \/ GiveMeOne
    \/ VectorWrite

FactorySpec == FactoryInit /\ [][FactoryNext]_vars

(* ------------------------------ PolyChord -------------------------------- *)
\* std::vector<T>(n, v), indexed from 0 as in the source
Vec(nn, v) == [q \in 0..(nn - 1) |-> v]
Size(v) == Cardinality(DOMAIN v)
PushBack(v, e) == [q \in 0..Size(v) |-> IF q < Size(v) THEN v[q] ELSE e]

\* the two PolyChord objects of the program
Insts == 1..2
\* parameter indices, prior bounds / means / fixed values, sigmas and sampled values
\* passed by the caller and the sampler (doubles, here small whole numbers)
Indices == 0..(MaxPar - 1)
PriorVals == 0..1
Sigmas == -1..1
ThetaVals == 10..11

\* PolyChord(nPar, like, nLive, fileRoot): the members run, logLike and the setters
\* use; nFixed_ is not initialised by the constructor, and run writes it before
\* anything reads it
NewPolyChord(nPar) ==
    [n_ |-> nPar,
     paramsCurrent_ |-> Vec(nPar, 0),
     priorTypes_ |-> Vec(nPar, 1),
     priorMins_ |-> Vec(nPar, 0),
     priorMaxs_ |-> Vec(nPar, 1),
     paramsFixed_ |-> Vec(nPar, 0),
     isFixed_ |-> Vec(nPar, FALSE),
     nFixed_ |-> 0]

PolyInit ==
    /\ running_ = FALSE
    /\ myPolyChordScanner = 0
    /\ poly \in [Insts -> {NewPolyChord(np) : np \in 1..MaxPar}]
    /\ stack = <<>>
    /\ runs = 0 /\ setCalls = 0 /\ rejected = 0 /\ lastRejected = 0
    /\ lastSetter = NoSetter
    /\ obj = "quad" /\ fx_ = <<>>
    /\ LbfgsAbsent
    /\ IdleButPoly

\* check(i >= 0 && i < n_, ...)
ValidIndex(o, i) == i >= 0 /\ i < o.n_

\* setParamFixed(i, name, val)
SetParamFixedOp(o, i, val) ==
    IF ~ValidIndex(o, i) THEN o
    ELSE [o EXCEPT !.paramsFixed_[i] = val, !.isFixed_[i] = TRUE]

\* setParam(i, name, min, max)
SetParamOp(o, i, min, max) ==
    IF ~ValidIndex(o, i) \/ ~(max >= min) THEN o
    ELSE IF min = max THEN SetParamFixedOp(o, i, min)
    ELSE [o EXCEPT !.priorTypes_[i] = 1, !.priorMins_[i] = min,
                   !.priorMaxs_[i] = max, !.isFixed_[i] = FALSE]

\* setParamGauss(i, name, mean, sigma)
SetParamGaussOp(o, i, mean, sigma) ==
    IF ~ValidIndex(o, i) \/ ~(sigma >= 0) THEN o
    ELSE IF sigma = 0 THEN SetParamFixedOp(o, i, mean)
    ELSE [o EXCEPT !.priorTypes_[i] = 2, !.priorMins_[i] = mean,
                   !.priorMaxs_[i] = sigma, !.isFixed_[i] = FALSE]

PolyFrame == UNCHANGED <<obj, fx_>> /\ UNCHANGED lbfgsOther /\ UNCHANGED auxButPoly

\* the caller configures a parameter (between runs)
SetParam ==
    /\ stack = <<>>
    /\ setCalls < MaxSetCalls
    /\ \E inst \in Insts, i \in Indices, min \in PriorVals, max \in PriorVals :
        /\ poly' = [poly EXCEPT ![inst] = SetParamOp(poly[inst], i, min, max)]
        /\ lastSetter' = [inst |-> inst, i |-> i, kind |-> "setParam", a |-> min,
                          b |-> max, ok |-> ValidIndex(poly[inst], i) /\ max >= min]
    /\ setCalls' = setCalls + 1
    /\ UNCHANGED <<running_, myPolyChordScanner, stack, runs, rejected, lastRejected>>
    /\ PolyFrame

SetParamFixed ==
    /\ stack = <<>>
    /\ setCalls < MaxSetCalls
    /\ \E inst \in Insts, i \in Indices, val \in PriorVals :
        /\ poly' = [poly EXCEPT ![inst] = SetParamFixedOp(poly[inst], i, val)]
        /\ lastSetter' = [inst |-> inst, i |-> i, kind |-> "setParamFixed", a |-> val,
                          b |-> val, ok |-> ValidIndex(poly[inst], i)]
    /\ setCalls' = setCalls + 1
    /\ UNCHANGED <<running_, myPolyChordScanner, stack, runs, rejected, lastRejected>>
    /\ PolyFrame

SetParamGauss ==
    /\ stack = <<>>
    /\ setCalls < MaxSetCalls
    /\ \E inst \in Insts, i \in Indices, mean \in PriorVals, sigma \in Sigmas :
        /\ poly' = [poly EXCEPT ![inst] = SetParamGaussOp(poly[inst], i, mean, sigma)]
        /\ lastSetter' = [inst |-> inst, i |-> i, kind |-> "setParamGauss", a |-> mean,
                          b |-> sigma, ok |-> ValidIndex(poly[inst], i) /\ sigma >= 0]
    /\ setCalls' = setCalls + 1
    /\ UNCHANGED <<running_, myPolyChordScanner, stack, runs, rejected, lastRejected>>
    /\ PolyFrame

\* the call of run that is executing
Top == stack[Len(stack)]
Pop == SubSeq(stack, 1, Len(stack) - 1)
SetTop(fr) == [stack EXCEPT ![Len(stack)] = fr]

\* code that can call run: the program, or the likelihood while it is being evaluated
CanCallRun == IF stack = <<>> THEN TRUE ELSE Top.phase = "likelihood"

\* run, lines 109-111: check(!running_, ...); running_ = true; myPolyChordScanner = this.
\* The caller is the program (no run in progress) or the likelihood of the run in
\* progress; a failed check throws, and the caller goes on or fails in its turn.
RunEnter_PointerFirst ==
    /\ runs < MaxRuns
    /\ CanCallRun
    /\ \E inst \in Insts :
        /\ myPolyChordScanner' = inst
        /\ IF running_
           THEN /\ rejected' = rejected + 1
                /\ lastRejected' = inst
                /\ UNCHANGED <<running_, stack>>
           ELSE /\ running_' = TRUE
                /\ stack' = Append(stack, [inst |-> inst, phase |-> "count", nDims |-> 0,
                                           priorTypes |-> Vec(0, 0), priorMins |-> Vec(0, 0),
                                           priorMaxs |-> Vec(0, 0), theta |-> Vec(0, 0),
                                           target |-> 0, read |-> 0, likes |-> 0])
                /\ UNCHANGED <<rejected, lastRejected>>
    /\ runs' = runs + 1
    /\ UNCHANGED <<poly, setCalls, lastSetter>>
    /\ PolyFrame
RunEnter ==
    /\ runs < MaxRuns
    /\ CanCallRun
    /\ \E inst \in Insts :
        IF running_
        THEN /\ rejected' = rejected + 1
             /\ lastRejected' = inst
             /\ UNCHANGED <<running_, myPolyChordScanner, stack>>
        ELSE /\ running_' = TRUE
             /\ myPolyChordScanner' = inst
             /\ stack' = Append(stack, [inst |-> inst, phase |-> "count", nDims |-> 0,
                                        priorTypes |-> Vec(0, 0), priorMins |-> Vec(0, 0),
                                        priorMaxs |-> Vec(0, 0), theta |-> Vec(0, 0),
                                        target |-> 0, read |-> 0, likes |-> 0])
             /\ UNCHANGED <<rejected, lastRejected>>
    /\ runs' = runs + 1
    /\ UNCHANGED <<poly, setCalls, lastSetter>>
    /\ PolyFrame

\* run, lines 115-120: the loop counting the fixed parameters
RECURSIVE CountFixedLoop(_, _, _)
CountFixedLoop(o, i, c) ==
    IF i >= o.n_ THEN c
    ELSE CountFixedLoop(o, i + 1, IF o.isFixed_[i] THEN c + 1 ELSE c)

\* run, lines 161-172: the loop compacting one prior array to the free parameters
RECURSIVE CompactLoop(_, _, _, _)
CompactLoop(o, src, i, acc) ==
    IF i >= o.n_ THEN acc
    ELSE CompactLoop(o, src, i + 1,
                     IF ~o.isFixed_[i] THEN PushBack(acc, src[i]) ELSE acc)

\* run, lines 113-184: count, check(nFixed_ < n_, ...), compact the priors and call the
\* sampler; a failed check throws out of run
RunCount ==
    /\ stack # <<>>
    /\ Top.phase = "count"
    /\ LET o == poly[Top.inst]
           nf == CountFixedLoop(o, 0, 0)
       IN  /\ poly' = [poly EXCEPT ![Top.inst].nFixed_ = nf]
           /\ IF nf < o.n_
              THEN stack' = SetTop([Top EXCEPT
                                !.phase = "sampling",
                                !.nDims = o.n_ - nf,
                                !.priorTypes = CompactLoop(o, o.priorTypes_, 0, Vec(0, 0)),
                                !.priorMins = CompactLoop(o, o.priorMins_, 0, Vec(0, 0)),
                                !.priorMaxs = CompactLoop(o, o.priorMaxs_, 0, Vec(0, 0))])
              ELSE stack' = Pop
    /\ UNCHANGED <<running_, myPolyChordScanner, runs, setCalls, rejected, lastRejected,
                   lastSetter>>
    /\ PolyFrame

\* theta[j]; reading past the end of the sampler's array yields no defined value
ThetaAt(theta, j) == IF j \in DOMAIN theta THEN theta[j] ELSE -1

\* logLike, lines 86-101: the loop over the parameters
RECURSIVE LogLikeLoop_AlwaysAdvance(_, _, _, _, _)
LogLikeLoop_AlwaysAdvance(o, theta, i, j, cur) ==
    IF i >= o.n_ THEN [cur |-> cur, j |-> j]
    ELSE IF o.isFixed_[i]
    THEN LogLikeLoop_AlwaysAdvance(o, theta, i + 1, j + 1,
                                   [cur EXCEPT ![i] = o.paramsFixed_[i]])
    ELSE LogLikeLoop_AlwaysAdvance(o, theta, i + 1, j + 1,
                                   [cur EXCEPT ![i] = ThetaAt(theta, j)])
RECURSIVE LogLikeLoop(_, _, _, _, _)
LogLikeLoop(o, theta, i, j, cur) ==
    IF i >= o.n_ THEN [cur |-> cur, j |-> j]
    ELSE IF o.isFixed_[i]
    THEN LogLikeLoop(o, theta, i + 1, j, [cur EXCEPT ![i] = o.paramsFixed_[i]])
    ELSE LogLikeLoop(o, theta, i + 1, j + 1, [cur EXCEPT ![i] = ThetaAt(theta, j)])

\* the sampler calls myLogLike(theta, phi, context) with nDims values:
\* myPolyChordScanner->logLike(theta) up to the call of like_.calculate
MyLogLike ==
    /\ stack # <<>>
    /\ Top.phase = "sampling"
    /\ Top.likes < MaxLikes
    /\ \E theta \in [0..(Top.nDims - 1) -> ThetaVals] :
        LET target == myPolyChordScanner
            r == LogLikeLoop(poly[target], theta, 0, 0, poly[target].paramsCurrent_)
        IN  /\ poly' = [poly EXCEPT ![target].paramsCurrent_ = r.cur]
            /\ stack' = SetTop([Top EXCEPT !.phase = "likelihood", !.theta = theta,
                                           !.target = target, !.read = r.j,
                                           !.likes = Top.likes + 1])
    /\ UNCHANGED <<running_, myPolyChordScanner, runs, setCalls, rejected, lastRejected,
                   lastSetter>>
    /\ PolyFrame

\* like_.calculate returns and logLike returns its value to the sampler
LikeReturn ==
    /\ stack # <<>>
    /\ Top.phase = "likelihood"
    /\ stack' = SetTop([Top EXCEPT !.phase = "sampling"])
    /\ UNCHANGED <<running_, myPolyChordScanner, poly, runs, setCalls, rejected,
                   lastRejected, lastSetter>>
    /\ PolyFrame

\* like_.calculate throws (an error of its own, or the failed check of a run it called):
\* the exception leaves logLike, the sampler and run at line 184
LikeThrow ==
    /\ stack # <<>>
    /\ Top.phase = "likelihood"
    /\ stack' = Pop
    /\ UNCHANGED <<running_, myPolyChordScanner, poly, runs, setCalls, rejected,
                   lastRejected, lastSetter>>
    /\ PolyFrame

\* the sampler throws: the exception leaves run at line 184
SamplerThrow ==
    /\ stack # <<>>
    /\ Top.phase = "sampling"
    /\ stack' = Pop
    /\ UNCHANGED <<running_, myPolyChordScanner, poly, runs, setCalls, rejected,
                   lastRejected, lastSetter>>
    /\ PolyFrame

\* run, lines 184-210: the sampler returns; running_ = false; the results are printed
RunExit ==
    /\ stack # <<>>
    /\ Top.phase = "sampling"
    /\ running_' = FALSE
    /\ stack' = Pop
    /\ UNCHANGED <<myPolyChordScanner, poly, runs, setCalls, rejected, lastRejected,
                   lastSetter>>
    /\ PolyFrame

PolyNext ==
    \/ SetParam
    \/ SetParamFixed
    \/ SetParamGauss
    \/ RunEnter
    \/ RunCount
    \/ MyLogLike
    \/ LikeReturn
    \/ LikeThrow
    \/ SamplerThrow
    \/ RunExit

PolySpec == PolyInit /\ [][PolyNext]_vars

(* ================= the lbfgs_test driver under MPI ======================== *)
\* CosmoMPI::numProcesses() of the run, and the master's processId
NumProcesses == 2
Procs == 0..(NumProcesses - 1)
Master == 0
\* the driver passes maxIter = 1000000; the runs examined stop after this many
DriverMaxIter == 2
\* argv[1] is a string of at most this many characters
MaxArgLen == 2
ArgChars == {"-", "0", "1", "2", "x"}
Digits == {"0", "1", "2"}
DigitVal(c) == IF c = "1" THEN 1 ELSE IF c = "2" THEN 2 ELSE 0
ArgStrings == UNION {[1..l -> ArgChars] : l \in 1..MaxArgLen}
\* the local partial sums a process contributes (units of 1e-3)
LocalVals == 0..2

\* the digits of s from position i on: <<value read, number of digits read>>
RECURSIVE ReadDigits(_, _, _)
ReadDigits(s, i, acc) ==
    IF i <= Len(s) /\ s[i] \in Digits
    THEN ReadDigits(s, i + 1, <<acc[1] * 10 + DigitVal(s[i]), acc[2] + 1>>)
    ELSE acc

\* str << argv[1]; str >> n : an optional sign and the leading digits; 0 when
\* there is no digit to read
ExtractInt(s) ==
    LET neg == Len(s) >= 1 /\ s[1] = "-"
        r   == ReadDigits(s, IF neg THEN 2 ELSE 1, <<0, 0>>)
    IN  IF r[2] = 0 THEN 0 ELSE IF neg THEN 0 - r[1] ELSE r[1]

\* main, command-line handling: n = 1; if(argc > 1) { str >> n; if(n < 1 &&
\* isMaster) n = 1; }
CommandLine(args, isMaster) ==
    IF Len(args) > 0
    THEN IF ExtractInt(args[1]) < 1 /\ isMaster THEN 1 ELSE ExtractInt(args[1])
    ELSE 1

NewProcess ==
    [n |-> 1, gradTol |-> 0, maxIter |-> 0, pc |-> "start", phase |-> "reduce",
     totalRes |-> 0, f |-> 0, k |-> 0, iter |-> 0, ops |-> <<>>, decisions |-> <<>>]

DriverInit ==
    /\ argv \in {<<>>} \cup {<<a>> : a \in ArgStrings}
    /\ procs = [p \in Procs |-> NewProcess]
    /\ toRoot = [p \in Procs |-> <<>>]
    /\ fromRoot = [p \in Procs |-> <<>>]
    /\ obj = "quad" /\ fx_ = <<>>
    /\ LbfgsAbsent
    /\ IdleButDrv

DrvFrame == UNCHANGED <<obj, fx_>> /\ UNCHANGED lbfgsOther /\ UNCHANGED auxButDrv

\* the positions of a process inside a collective operation, in program order:
\* first evaluation (value, derivative, norm), direction, line-search trial,
\* accepted step (derivative, curvature, norm)
InCollective == {"init_value", "init_derivative", "init_norm", "dir_dot",
                 "trial_value", "acc_derivative", "acc_dot", "acc_norm"}
Exited == {"exit0", "exit1"}

OpKind(at) ==
    CASE at \in {"init_value", "trial_value"} -> "value"
      [] at \in {"init_derivative", "acc_derivative"} -> "derivative"
      [] at \in {"init_norm", "acc_norm"} -> "norm"
      [] OTHER -> "dotProduct"

Decide(pr, what, next) ==
    [pr EXCEPT !.decisions = Append(@, what), !.pc = next, !.phase = "reduce"]

\* what a process does with the global value v of the operation it is in: the
\* engine's accept/reject and continue/stop decisions, taken locally
AfterOp(pr, v) ==
    CASE pr.pc = "init_value" ->
            [pr EXCEPT !.f = v, !.pc = "init_derivative", !.phase = "reduce"]
      [] pr.pc = "init_derivative" ->
            [pr EXCEPT !.pc = "init_norm", !.phase = "reduce"]
      [] pr.pc = "init_norm" ->
            IF v < pr.gradTol THEN Decide(pr, "stop", "done")
            ELSE Decide(pr, "continue", "dir_dot")
      [] pr.pc = "dir_dot" ->
            [pr EXCEPT !.k = 0, !.pc = "trial_value", !.phase = "reduce"]
      [] pr.pc = "trial_value" ->
            IF v <= pr.f
            THEN Decide([pr EXCEPT !.f = v], "accept", "acc_derivative")
            ELSE IF BudgetLeft(pr.k + 1)
                 THEN Decide([pr EXCEPT !.k = @ + 1], "reject", "trial_value")
                 ELSE Decide(pr, "stop", "done")
      [] pr.pc = "acc_derivative" ->
            [pr EXCEPT !.pc = "acc_dot", !.phase = "reduce"]
      [] pr.pc = "acc_dot" ->
            [pr EXCEPT !.pc = "acc_norm", !.phase = "reduce"]
      [] OTHER ->
            IF v < pr.gradTol \/ CapReached(pr.iter + 1, pr.maxIter)
            THEN Decide([pr EXCEPT !.iter = @ + 1], "stop", "done")
            ELSE Decide([pr EXCEPT !.iter = @ + 1], "continue", "dir_dot")

\* main, lines 90-106
ParseCommandLine ==
    \E p \in Procs :
        /\ procs[p].pc = "start"
        /\ procs' = [procs EXCEPT ![p] = [@ EXCEPT !.n = CommandLine(argv, p = Master),
                                                   !.pc = "parsed"]]
        /\ UNCHANGED <<argv, toRoot, fromRoot>>
        /\ DrvFrame

\* LBFGSFunc f(n): check(n_ > 0) fails, main catches the exception and returns 1
ConstructThrow ==
    \E p \in Procs :
        /\ procs[p].pc = "parsed"
        /\ ~(procs[p].n > 0)
        /\ procs' = [procs EXCEPT ![p] = [@ EXCEPT !.pc = "exit1"]]
        /\ UNCHANGED <<argv, toRoot, fromRoot>>
        /\ DrvFrame

\* f, g, x, gradTol = 1e-3 * n * numProcesses, lbfgs are built and minimize is called
ConstructAndMinimize ==
    \E p \in Procs :
        /\ procs[p].pc = "parsed"
        /\ procs[p].n > 0
        /\ procs' = [procs EXCEPT ![p] = [@ EXCEPT !.gradTol = procs[p].n * NumProcesses,
                                                   !.maxIter = DriverMaxIter,
                                                   !.pc = "init_value",
                                                   !.phase = "reduce"]]
        /\ UNCHANGED <<argv, toRoot, fromRoot>>
        /\ DrvFrame

Entered(pr, what) == [pr EXCEPT !.ops = Append(@, <<OpKind(pr.pc), what>>)]

RECURSIVE SumHeads(_, _)
SumHeads(ch, ps) ==
    IF ps = {} THEN 0
    ELSE LET q == CHOOSE q \in ps : TRUE IN Head(ch[q]) + SumHeads(ch, ps \ {q})

\* reduce on a process other than the master: the partial sum is sent
ReduceSend ==
    \E p \in Procs \ {Master}, v \in LocalVals :
        /\ procs[p].pc \in InCollective
        /\ procs[p].phase = "reduce"
        /\ toRoot' = [toRoot EXCEPT ![p] = Append(@, v)]
        /\ procs' = [procs EXCEPT ![p] = [Entered(@, "reduce") EXCEPT !.totalRes = v,
                                                                     !.phase = "bcast"]]
        /\ UNCHANGED <<argv, fromRoot>>
        /\ DrvFrame

\* reduce on the master: it returns once every other process has contributed
ReduceRoot ==
    \E v \in LocalVals :
        /\ procs[Master].pc \in InCollective
        /\ procs[Master].phase = "reduce"
        /\ \A q \in Procs \ {Master} : toRoot[q] # <<>>
        /\ procs' = [procs EXCEPT ![Master] =
                        [Entered(@, "reduce") EXCEPT
                            !.totalRes = v + SumHeads(toRoot, Procs \ {Master}),
                            !.phase = "bcast"]]
        /\ toRoot' = [q \in Procs |-> IF q = Master THEN toRoot[q] ELSE Tail(toRoot[q])]
        /\ UNCHANGED <<argv, fromRoot>>
        /\ DrvFrame

\* bcast on the master: the total is sent to every other process
BcastRoot ==
    /\ procs[Master].pc \in InCollective
    /\ procs[Master].phase = "bcast"
    /\ procs' = [procs EXCEPT ![Master] =
                    AfterOp(Entered(@, "bcast"), procs[Master].totalRes)]
    /\ fromRoot' = [q \in Procs |-> IF q = Master THEN fromRoot[q]
                                    ELSE Append(fromRoot[q], procs[Master].totalRes)]
    /\ UNCHANGED <<argv, toRoot>>
    /\ DrvFrame

\* bcast on a process other than the master: it returns with the master's total
BcastReceive ==
    \E p \in Procs \ {Master} :
        /\ procs[p].pc \in InCollective
        /\ procs[p].phase = "bcast"
        /\ fromRoot[p] # <<>>
        /\ procs' = [procs EXCEPT ![p] = AfterOp(Entered(@, "bcast"), Head(fromRoot[p]))]
        /\ fromRoot' = [fromRoot EXCEPT ![p] = Tail(@)]
        /\ UNCHANGED <<argv, toRoot>>
        /\ DrvFrame

\* minimize has returned: main returns 0
DriverReturn ==
    \E p \in Procs :
        /\ procs[p].pc = "done"
        /\ procs' = [procs EXCEPT ![p] = [@ EXCEPT !.pc = "exit0"]]
        /\ UNCHANGED <<argv, toRoot, fromRoot>>
        /\ DrvFrame

DriverNext ==
    \/ ParseCommandLine
    \/ ConstructThrow
    \/ ConstructAndMinimize
    \/ ReduceSend
    \/ ReduceRoot
    \/ BcastRoot
    \/ BcastReceive
    \/ DriverReturn

DriverSpec == DriverInit /\ [][DriverNext]_vars

\* a process waits in a collective for a process that has left the program
Blocked(p) ==
    /\ procs[p].pc \in InCollective
    /\ IF p = Master
       THEN /\ procs[p].phase = "reduce"
            /\ \E q \in Procs \ {Master} : toRoot[q] = <<>> /\ procs[q].pc \in Exited
       ELSE /\ procs[p].phase = "bcast"
            /\ fromRoot[p] = <<>>
            /\ procs[Master].pc \in Exited

PrefixOf(a, b) == Len(a) <= Len(b) /\ SubSeq(b, 1, Len(a)) = a
Compatible(a, b) == PrefixOf(a, b) \/ PrefixOf(b, a)

(* ============ several LBFGS objects, nested minimize calls ================ *)
\* minimize calls made in one run of the program
MaxNestCalls == 3
\* the LBFGS objects of the program
LbfgsObjects == 1..2
\* the callbacks the program passes to minimize
UserCallbacks == Callbacks \cup {"logIter"}

NestInit ==
    /\ callStack = <<>>
    /\ deliveries = {}
    /\ minimizeCalls = 0
    /\ obj = "quad" /\ fx_ = <<>>
    /\ LbfgsAbsent
    /\ IdleButNest

NestFrame == UNCHANGED <<obj, fx_>> /\ UNCHANGED lbfgsButCb /\ UNCHANGED auxButNest

Innermost == callStack[Len(callStack)]
Outer == SubSeq(callStack, 1, Len(callStack) - 1)
At(where) == [callStack EXCEPT ![Len(callStack)] = [@ EXCEPT !.at = where]]
\* the program is in user code: outside every minimize, or inside the objective
\* or the callback of the innermost one
InUserCode ==
    IF callStack = <<>> THEN TRUE ELSE Innermost.at \in {"objective", "callback"}

\* LBFGS::minimize is entered: cb_ = callback, then the engine runs
NestMinimizeCall ==
    \E i \in LbfgsObjects, cb \in UserCallbacks :
        /\ minimizeCalls < MaxNestCalls
        /\ InUserCode
        /\ \A q \in 1..Len(callStack) : callStack[q].inst # i
        /\ cb_' = cb
        /\ callStack' = Append(callStack, [inst |-> i, callback |-> cb, at |-> "engine"])
        /\ minimizeCalls' = minimizeCalls + 1
        /\ UNCHANGED deliveries
        /\ NestFrame

\* the engine calls BasicLBFGSFunc::value or derivative, that is the user's objective
NestEvaluate ==
    /\ callStack # <<>>
    /\ Innermost.at = "engine"
    /\ callStack' = At("objective")
    /\ UNCHANGED <<cb_, deliveries, minimizeCalls>>
    /\ NestFrame

\* the objective or the callback returns to the engine
NestUserReturn ==
    /\ callStack # <<>>
    /\ Innermost.at \in {"objective", "callback"}
    /\ callStack' = At("engine")
    /\ UNCHANGED <<cb_, deliveries, minimizeCalls>>
    /\ NestFrame

\* the engine emits a notification: myCallBack invokes cb_ if it is set
NestNotify ==
    /\ callStack # <<>>
    /\ Innermost.at = "engine"
    /\ deliveries' = deliveries \cup
            {[inst |-> Innermost.inst, passed |-> Innermost.callback, invoked |-> cb_]}
    /\ callStack' = IF cb_ # "NULL" THEN At("callback") ELSE callStack
    /\ UNCHANGED <<cb_, minimizeCalls>>
    /\ NestFrame

\* the engine returns; minimize copies the result and returns, cb_ stays as it is
NestMinimizeReturn ==
    /\ callStack # <<>>
    /\ Innermost.at = "engine"
    /\ callStack' = Outer
    /\ UNCHANGED <<cb_, deliveries, minimizeCalls>>
    /\ NestFrame

NestNext ==
    \/ NestMinimizeCall
    \/ NestEvaluate
    \/ NestUserReturn
    \/ NestNotify
    \/ NestMinimizeReturn

NestSpec == NestInit /\ [][NestNext]_vars

(* ======================= Parser: the getters ============================== *)
\* a std::string is the sequence of its characters
DecDigits == <<"0", "1", "2", "3", "4", "5", "6", "7", "8", "9">>
IsDigit(c) == \E q \in 1..10 : DecDigits[q] = c
CharDigit(c) == (CHOOSE q \in 1..10 : DecDigits[q] = c) - 1
DigitChar(v) == DecDigits[v + 1]

\* a double is the whole number of units of 10^-DoubleScale it holds
DoubleScale == 7
\* std::stringstream writes a double with 6 significant digits
StreamPrecision == 6

RECURSIVE Pow10(_)
Pow10(e) == IF e = 0 THEN 1 ELSE 10 * Pow10(e - 1)
RECURSIVE NumDigits(_)
NumDigits(a) == IF a < 10 THEN 1 ELSE 1 + NumDigits(a \div 10)

RECURSIVE FormatNat(_)
FormatNat(a) ==
    IF a < 10 THEN <<DigitChar(a)>> ELSE Append(FormatNat(a \div 10), DigitChar(a % 10))

\* str << def, def an int
FormatInt(i) == IF i < 0 THEN <<"-">> \o FormatNat(0 - i) ELSE FormatNat(i)

RECURSIVE PadLeft(_, _)
PadLeft(s, len) == IF Len(s) >= len THEN s ELSE PadLeft(<<"0">> \o s, len)
RECURSIVE StripZeros(_)
StripZeros(s) ==
    IF s # <<>> /\ s[Len(s)] = "0" THEN StripZeros(SubSeq(s, 1, Len(s) - 1)) ELSE s

\* the value kept by 6 significant digits, to nearest
RoundSignificant(a) ==
    IF NumDigits(a) > StreamPrecision
    THEN LET p == Pow10(NumDigits(a) - StreamPrecision)
         IN  ((a + p \div 2) \div p) * p
    ELSE a

\* str << def, def a double of magnitude 0 or in [1e-4, 1e6): fixed notation, 6
\* significant digits, trailing zeros and a trailing point dropped
FormatDouble(u) ==
    LET a  == IF u < 0 THEN 0 - u ELSE u
        r  == RoundSignificant(a)
        ip == r \div Pow10(DoubleScale)
        fr == r % Pow10(DoubleScale)
    IN  (IF u < 0 THEN <<"-">> ELSE <<>>)
        \o FormatNat(ip)
        \o (IF fr = 0 THEN <<>>
            ELSE <<".">> \o StripZeros(PadLeft(FormatNat(fr), DoubleScale)))

\* the digits of s from position i on: <<value read, number of digits read>>
RECURSIVE ReadNat(_, _, _)
ReadNat(s, i, acc) ==
    IF i <= Len(s) /\ IsDigit(s[i])
    THEN ReadNat(s, i + 1, <<acc[1] * 10 + CharDigit(s[i]), acc[2] + 1>>)
    ELSE acc

\* the fraction digits of s from position i on, in units of 10^-DoubleScale
RECURSIVE ReadFrac(_, _, _)
ReadFrac(s, i, place) ==
    IF i <= Len(s) /\ IsDigit(s[i]) /\ place > 0
    THEN CharDigit(s[i]) * Pow10(place - 1) + ReadFrac(s, i + 1, place - 1)
    ELSE 0

HasSign(s) == Len(s) >= 1 /\ s[1] \in {"-", "+"}
Signed(s, v) == IF Len(s) >= 1 /\ s[1] = "-" THEN 0 - v ELSE v

\* std::atoi: an optional sign and the leading digits, 0 when there is none
Atoi(s) == Signed(s, ReadNat(s, IF HasSign(s) THEN 2 ELSE 1, <<0, 0>>)[1])

\* std::atof: an optional sign, digits, an optional point and digits
Atof(s) ==
    LET first == IF HasSign(s) THEN 2 ELSE 1
        ip    == ReadNat(s, first, <<0, 0>>)
        dot   == first + ip[2]
        fr    == IF dot <= Len(s) /\ s[dot] = "."
                 THEN ReadFrac(s, dot + 1, DoubleScale) ELSE 0
    IN  Signed(s, ip[1] * Pow10(DoubleScale) + fr)

\* the keys and defaults the program asks for
ParserKeys == {"omega", "h"}
IntDefaults == {0 - 1, 0, 12}
\* 0, 0.5, 0.1234567, -1.5
DoubleDefaults == {0, 5000000, 1234567, 0 - 15000000}
StrDefaults == {<<>>, <<"a">>, <<"1", ".", "5">>}

\* find(s) != end()
Has(mp, key) == key \in DOMAIN mp
\* (*this)[key] = val
MapPut(mp, key, val) == [q \in DOMAIN mp \cup {key} |-> IF q = key THEN val ELSE mp[q]]

ParserInit ==
    /\ parser = EmptyMap
    /\ lastGet = NoGet
    /\ firstStored = EmptyMap
    /\ obj = "quad" /\ fx_ = <<>>
    /\ LbfgsAbsent
    /\ IdleButParser

ParserFrame == UNCHANGED <<obj, fx_>> /\ UNCHANGED lbfgsOther /\ UNCHANGED auxButParser

Outcome(op, key, def, threw, val) ==
    [op |-> op, key |-> key, def |-> def, before |-> parser, threw |-> threw, ret |-> val]

\* a getter with a default finds the key absent: the default is written and returned
StoreDefault(op, key, def, text) ==
    /\ parser' = MapPut(parser, key, text)
    /\ firstStored' = IF Has(firstStored, key) THEN firstStored
                      ELSE MapPut(firstStored, key, text)
    /\ lastGet' = Outcome(op, key, def, FALSE, def)

\* int Parser::getInt(const std::string& s) const
GetInt ==
    \E key \in ParserKeys :
        /\ lastGet' = IF Has(parser, key)
                      THEN Outcome("getInt", key, 0, FALSE, Atoi(parser[key]))
                      ELSE Outcome("getInt", key, 0, TRUE, 0)
        /\ UNCHANGED <<parser, firstStored>>
        /\ ParserFrame

\* int Parser::getInt(const std::string& s, int def)
GetIntDef ==
    \E key \in ParserKeys, def \in IntDefaults :
        /\ IF ~Has(parser, key)
           THEN StoreDefault("getIntDef", key, def, FormatInt(def))
           ELSE /\ lastGet' = Outcome("getIntDef", key, def, FALSE, Atoi(parser[key]))
                /\ UNCHANGED <<parser, firstStored>>
        /\ ParserFrame

\* double Parser::getDouble(const std::string& s) const
GetDouble ==
    \E key \in ParserKeys :
        /\ lastGet' = IF Has(parser, key)
                      THEN Outcome("getDouble", key, 0, FALSE, Atof(parser[key]))
                      ELSE Outcome("getDouble", key, 0, TRUE, 0)
        /\ UNCHANGED <<parser, firstStored>>
        /\ ParserFrame

\* double Parser::getDouble(const std::string& s, double def)
GetDoubleDef ==
    \E key \in ParserKeys, def \in DoubleDefaults :
        /\ IF ~Has(parser, key)
           THEN StoreDefault("getDoubleDef", key, def, FormatDouble(def))
           ELSE /\ lastGet' = Outcome("getDoubleDef", key, def, FALSE, Atof(parser[key]))
                /\ UNCHANGED <<parser, firstStored>>
        /\ ParserFrame

\* std::string Parser::getStr(const std::string& s) const
GetStr ==
    \E key \in ParserKeys :
        /\ lastGet' = IF Has(parser, key)
                      THEN Outcome("getStr", key, <<>>, FALSE, parser[key])
                      ELSE Outcome("getStr", key, <<>>, TRUE, <<>>)
        /\ UNCHANGED <<parser, firstStored>>
        /\ ParserFrame

\* std::string Parser::getStr(const std::string& s, const std::string& def)
GetStrDef ==
    \E key \in ParserKeys, def \in StrDefaults :
        /\ IF ~Has(parser, key)
           THEN StoreDefault("getStrDef", key, def, def)
           ELSE /\ lastGet' = Outcome("getStrDef", key, def, FALSE, parser[key])
                /\ UNCHANGED <<parser, firstStored>>
        /\ ParserFrame

ParserNext ==
    \/ GetInt
    \/ GetIntDef
    \/ GetDouble
    \/ GetDoubleDef
    \/ GetStr
    \/ GetStrDef

ParserSpec == ParserInit /\ [][ParserNext]_vars

\* what a getter of the kind of op reads from the stored string
ReadAs(op, text) ==
    CASE op \in {"getInt", "getIntDef"} -> Atoi(text)
      [] op \in {"getDouble", "getDoubleDef"} -> Atof(text)
      [] OTHER -> text
WithDefault == {"getIntDef", "getDoubleDef", "getStrDef"}
OthersKept(c) ==
    /\ DOMAIN parser = DOMAIN c.before \cup {c.key}
    /\ \A q \in DOMAIN c.before : q # c.key => parser[q] = c.before[q]

(* ============================== claims ================================== *)
NormalEnd == Terminal \ {"DimensionError"}

\* C1: within a minimize run the engine state moves only Initializing -> Iterating
\* -> one terminal state; a terminal state is left only by the next minimize call,
\* and while it lasts there is no evaluation, accepted step, history insertion,
\* notification or callback; an iteration starts only at the first gradient or after
\* the previous iteration's convergence check, and the iteration counter changes only
\* by +1, at the acceptance of a step.
C1_StateMachine ==
    [][ /\ state' # state =>
            \/ state = "Initializing" /\ pc = "running"
                 /\ state' \in {"Iterating", "DimensionError"}
            \/ state = "Iterating" /\ state' \in NormalEnd
            \/ state \in Terminal /\ pc # "running" /\ state' = "Initializing"
                 /\ calls' = calls + 1
        /\ (state \in Terminal /\ calls' = calls) =>
            /\ state' = state
            /\ UNCHANGED <<fx_, evals, accepted, inserted, notified, cbCount>>
        /\ (state' = "Initializing" /\ calls' = calls) => state = "Initializing"
        /\ (pc' = "running" /\ step' = "direction" /\ step # "direction") =>
            \/ state = "Initializing" /\ iter' = 0
            \/ step = "check"
        /\ (pc' = "running" /\ calls' = calls /\ iter' # iter) =>
            /\ iter' = iter + 1
            /\ accepted' = accepted + 1
            /\ step = "accept" /\ step' = "callback"
      ]_vars

C1_Witness ==
    /\ pc = "running" /\ calls = 2
    /\ state = "MaxIterExceeded" /\ iter = 3
    /\ lastReport.state = "Converged"

C3_HistoryWindow ==
    pc = "running" =>
        /\ Len(hist) <= m
        /\ LET kk == Len(inserted)
               keep == IF kk < m THEN kk ELSE m
           IN  hist = SubSeq(inserted, kk - keep + 1, kk)

C3_Witness ==
    /\ pc = "running" /\ m = 2
    /\ Len(inserted) = 3 /\ Len(hist) = 2
    /\ hist[1] # hist[2]

\* C4: every history entry has s.y > 0 (and rho = 1 / (s.y)); an accepted step whose
\* pair has s.y <= 0 leaves the history exactly as it was.
C4_Curvature ==
    /\ [](\A i \in 1..Len(hist) :
            /\ DotProduct(hist[i].s, hist[i].y)[1] > 0
            /\ RMul(hist[i].rho, DotProduct(hist[i].s, hist[i].y)) = One)
    /\ [][(step = "accept" /\ step' = "callback"
             /\ DotProduct(VAdd(x', x, MinusOne), VAdd(g', g, MinusOne))[1] <= 0)
            => (hist' = hist /\ inserted' = inserted)]_vars

C4_Witness ==
    /\ pc = "running" /\ step = "callback"
    /\ obj = "ramp"
    /\ accepted = 2 /\ Len(inserted) = 1 /\ Len(hist) = 1

\* C5: a run whose starting vector is zero-dimensional or differs in length from the
\* factory's n never leaves Initializing except to DimensionError: nothing is
\* evaluated, no direction computed, no step tried or accepted, no notification
\* emitted and no callback invoked, and the call does not return normally.
C5_DimensionError ==
    (pc = "running" /\ (Len(starting) = 0 \/ Len(starting) # n)) =>
        /\ state \in {"Initializing", "DimensionError"}
        /\ evals = 0 /\ accepted = 0 /\ notified = 0 /\ cbCount = 0
        /\ step = "none" /\ d = <<>> /\ iter = 0

C5_Witness ==
    /\ pc = "thrown" /\ state = "DimensionError"
    /\ calls = 2 /\ lastReport.state = "Converged"
    /\ Len(starting) # 0 /\ Len(starting) # n
    /\ cb_ = "printIter" /\ cbCount = 0

\* C6: at every terminal state but DimensionError the engine's result vector holds
\* the final iterate and f is the objective there; after the return the caller's
\* vector equals that vector, has the dimension n of the starting point, and the
\* returned value is the objective at it.
C6_Result ==
    /\ (pc = "running" /\ state \in NormalEnd) =>
            (s_ = x /\ f = Evaluate(obj, x) /\ Len(x) = Len(starting))
    /\ pc = "returned" =>
            /\ state \in NormalEnd
            /\ res = s_
            /\ Len(res) = n
            /\ ret = Evaluate(obj, res)

C6_Witness ==
    /\ pc = "returned" /\ state = "LineSearchFailed"
    /\ accepted = 1 /\ res # start
    /\ ret # Evaluate(obj, start)

C8_LineSearchFailed ==
    /\ [][(pc = "running" /\ step \in {"direction", "linesearch"})
            => UNCHANGED <<x, g, f, hist, iter>>]_vars
    /\ [][(state = "Iterating" /\ state' = "LineSearchFailed")
            => (step = "linesearch" /\ s_' = x /\ pc' = "running")]_vars
    /\ [][(state = "LineSearchFailed" /\ pc = "running" /\ pc' # "running")
            => (pc' = "returned" /\ res' = x /\ ret' = f)]_vars

C8_Witness ==
    /\ pc = "running" /\ state = "LineSearchFailed"
    /\ accepted >= 1 /\ Len(hist) >= 1
    /\ fx_ # x /\ s_ = x

\* C9: trial steps are t = 1, 1/2, 1/4, ...: t = 2^-k after k contractions, k within
\* the budget; a step is accepted only if f(x + t d) <= f + c1 t (g.d); a rejection
\* contracts once; the search fails only when the budget is used up and the last
\* trial violates the condition.
C9_Armijo ==
    /\ [](step \in {"linesearch", "accept"} =>
            /\ k \in 0..MaxContractions
            /\ t = <<1, Pow2(k)>>)
    /\ [](step = "accept" =>
            /\ t[1] > 0
            /\ fTrial = Evaluate(obj, VAdd(x, d, t))
            /\ RLe(fTrial, RAdd(f, RMul(ArmijoC1, RMul(t, DotProduct(g, d))))))
    /\ [][(step = "linesearch" /\ pc' = "running" /\ step' # "accept") =>
            /\ ~RLe(Evaluate(obj, VAdd(x, d, t)),
                    RAdd(f, RMul(ArmijoC1, RMul(t, DotProduct(g, d)))))
            /\ \/ (step' = "linesearch" /\ k' = k + 1 /\ t' = RMul(t, Half))
               \/ (state' = "LineSearchFailed" /\ k = MaxContractions)]_vars

C9_Witness ==
    /\ step = "accept" /\ k = 2
    /\ obj = "steep" /\ iter = 0

\* C10: after the convergence check of an iteration the run is Converged if and only
\* if ||g_new|| <= gNormTol or |f_new - f_old| <= epsilon max(1, |f_old|) holds for
\* the caller's tolerances: Converged implies the condition, and a run that went on
\* to a further iteration (or stopped at the cap) does not satisfy it.
C10_Converged ==
    (pc = "running" /\ iter >= 1 /\ step \in {"direction", "linesearch", "accept", "done"})
        => ((state = "Converged") <=>
              \/ RLe(NormSq(g), RMul(call.gNormTol, call.gNormTol))
              \/ RLe(RAbs(RSub(f, fOld)), RMul(call.epsilon, RMax(One, RAbs(fOld)))))

C10_Witness ==
    /\ pc = "running" /\ state = "Converged"
    /\ ~RLe(NormSq(g), RMul(call.gNormTol, call.gNormTol))
    /\ iter >= 1

C13_Idempotent ==
    /\ [](Cardinality(vals) <= 1 /\ Cardinality(grads) <= 1)
    /\ [][(queries' # queries /\ sets' = sets) => fx_' = fx_]_vars

C13_Witness ==
    /\ sets = 1 /\ queries = MaxQueries
    /\ vals # {} /\ grads # {}
    /\ out # <<>> /\ out # fx_

\* C14: value() and derivative() evaluate at the contents passed to the most recent
\* set and at no earlier point, also after the caller has changed its vector.
C14_MostRecentSet ==
    /\ fx_ = lastSet
    /\ vals \subseteq {Evaluate(obj, lastSet)}
    /\ grads \subseteq {EvaluateGrad(obj, lastSet)}

C14_Witness ==
    /\ sets = 2 /\ vals # {} /\ grads # {}
    /\ arg # lastSet
    /\ Evaluate(obj, arg) \notin vals
    /\ EvaluateGrad(obj, arg) \notin grads

\* C15: every giveMeOne returns a new vector, distinct from every vector returned
\* before, of length n with all elements 0, and changes neither the factory's n nor
\* any vector created before.
C15_GiveMeOne ==
    /\ [](\A i, j \in 1..Len(returned) : i # j => returned[i] # returned[j])
    /\ [][Len(returned') # Len(returned) =>
            LET a == returned'[Len(returned')]
            IN  /\ returned' = Append(returned, a)
                /\ a \notin DOMAIN heap
                /\ a \in DOMAIN heap'
                /\ Len(heap'[a]) = factory_n
                /\ \A i \in 1..factory_n : heap'[a][i] = Zero
                /\ \A b \in DOMAIN heap : heap'[b] = heap[b]
                /\ factory_n' = factory_n]_vars
    /\ [][factory_n' = factory_n]_vars

C15_Witness ==
    /\ Len(returned) = 3 /\ factory_n = 2
    /\ heap[returned[1]] = <<One, One>>
    /\ heap[returned[2]] = <<One>>
    /\ heap[returned[3]] = <<Zero, Zero>>

\* C16: once no call of run is in progress any more, whether the calls returned or
\* failed, running_ is false (so that the next call of run passes the guard).
C16_FlagReset == (stack = <<>>) => ~running_

\* C17: at most one run is in progress; while one is, running_ is set and the pointer
\* is the instance that started it, and each likelihood call is routed to that
\* instance; a call of run made while running_ is set fails at the guard and changes
\* neither running_ nor the pointer, nor any run in progress or object.
C17_OneRun ==
    /\ [](Len(stack) <= 1)
    /\ [](stack # <<>> =>
            /\ running_
            /\ myPolyChordScanner = stack[1].inst
            /\ (stack[1].phase = "likelihood" => stack[1].target = stack[1].inst))
    /\ [][(running_ /\ runs' # runs) => rejected' = rejected + 1]_vars
    /\ [][rejected' # rejected =>
            (running_ /\ UNCHANGED <<running_, myPolyChordScanner, stack, poly>>)]_vars

C17_Witness ==
    /\ stack # <<>>
    /\ rejected = 1 /\ lastRejected # stack[1].inst
    /\ stack[1].phase = "likelihood" /\ stack[1].likes = 2
    /\ stack[1].target = stack[1].inst

\* the number of free parameters before parameter i
FreeBefore(o, i) == Cardinality({q \in 0..(i - 1) : ~o.isFixed_[q]})

\* C20: the sampler is given n - nFixed dimensions and compacted prior arrays whose
\* j-th entry is that of the j-th free parameter; logLike reads exactly n - nFixed
\* entries of theta, gives every fixed parameter its fixed value and the j-th free
\* parameter theta[j]; a setter makes a parameter fixed exactly when min == max or
\* sigma == 0 (or by setParamFixed), whatever it was before.
C20_ParamMapping ==
    /\ (stack # <<>> /\ stack[1].phase \in {"sampling", "likelihood"}) =>
        LET fr == stack[1]
            o == poly[fr.inst]
        IN  /\ o.nFixed_ = Cardinality({q \in 0..(o.n_ - 1) : o.isFixed_[q]})
            /\ fr.nDims = o.n_ - o.nFixed_
            /\ Size(fr.priorTypes) = fr.nDims
            /\ Size(fr.priorMins) = fr.nDims
            /\ Size(fr.priorMaxs) = fr.nDims
            /\ \A i \in 0..(o.n_ - 1) : ~o.isFixed_[i] =>
                /\ fr.priorTypes[FreeBefore(o, i)] = o.priorTypes_[i]
                /\ fr.priorMins[FreeBefore(o, i)] = o.priorMins_[i]
                /\ fr.priorMaxs[FreeBefore(o, i)] = o.priorMaxs_[i]
    /\ (stack # <<>> /\ stack[1].phase = "likelihood") =>
        LET fr == stack[1]
            o == poly[fr.target]
        IN  /\ fr.read = o.n_ - o.nFixed_
            /\ fr.read = Size(fr.theta)
            /\ \A i \in 0..(o.n_ - 1) :
                o.paramsCurrent_[i] = IF o.isFixed_[i] THEN o.paramsFixed_[i]
                                      ELSE fr.theta[FreeBefore(o, i)]
    /\ lastSetter.ok =>
        LET o == poly[lastSetter.inst]
            i == lastSetter.i
            a == lastSetter.a
            b == lastSetter.b
        IN  /\ lastSetter.kind = "setParam" =>
                /\ o.isFixed_[i] = (a = b)
                /\ (a = b => o.paramsFixed_[i] = a)
                /\ (a < b => o.priorTypes_[i] = 1 /\ o.priorMins_[i] = a
                                /\ o.priorMaxs_[i] = b)
            /\ lastSetter.kind = "setParamGauss" =>
                /\ o.isFixed_[i] = (b = 0)
                /\ (b = 0 => o.paramsFixed_[i] = a)
                /\ (b > 0 => o.priorTypes_[i] = 2 /\ o.priorMins_[i] = a
                                /\ o.priorMaxs_[i] = b)
            /\ lastSetter.kind = "setParamFixed" =>
                (o.isFixed_[i] /\ o.paramsFixed_[i] = a)

C20_Witness ==
    /\ stack # <<>> /\ stack[1].phase = "likelihood"
    /\ poly[stack[1].inst].n_ = 2
    /\ lastSetter = [inst |-> stack[1].inst, i |-> 0, kind |-> "setParam", a |-> 1,
                     b |-> 1, ok |-> TRUE]
    /\ poly[stack[1].inst].priorTypes_[1] = 2
    /\ stack[1].priorTypes = Vec(1, 2)
    /\ stack[1].theta = Vec(1, 11)
    /\ poly[stack[1].inst].paramsCurrent_ = [q \in 0..1 |-> IF q = 0 THEN 1 ELSE 11]

\* C18: in the lbfgs_test driver, once command-line handling is over every process
\* holds the same dimension n, and n >= 1, whatever the argument (absent, valid,
\* below 1 or not a number).
C18_SameDimension ==
    \A p, q \in Procs :
        (procs[p].pc # "start" /\ procs[q].pc # "start")
            => (procs[p].n = procs[q].n /\ procs[p].n >= 1)

\* C12: the processes of a run perform the same sequence of collective
\* operations (reduce then bcast in each value and derivative, each norm and
\* dotProduct) and take the same accept/reject and continue/stop decisions, and
\* no process waits in a collective for a process that never enters it.
C12_SameCollectives ==
    /\ \A p, q \in Procs :
            /\ Compatible(procs[p].ops, procs[q].ops)
            /\ Compatible(procs[p].decisions, procs[q].decisions)
            /\ (procs[p].pc \in Exited /\ procs[q].pc \in Exited)
                    => (procs[p].ops = procs[q].ops
                        /\ procs[p].decisions = procs[q].decisions)
    /\ \A p \in Procs : ~Blocked(p)

\* C19: every notification the engine emits during a minimize call is forwarded
\* to the callback passed to that call and to no other (to none when the call
\* was made with no callback), for any number of LBFGS objects and any sequence
\* or nesting of their minimize calls.
C19_OwnCallback == \A e \in deliveries : e.invoked = e.passed

\* C21: a getter with a default, on an absent key, returns the default and stores
\* it under that key (the stored entry reads back as the default), leaving every
\* other key unchanged; on a present key it returns the stored value, ignores
\* the default and leaves the map unchanged; the string stored first under a key
\* is the one every later getter reads; a getter without a default throws on an
\* absent key and never changes the map.
C21_Getters ==
    /\ \A q \in DOMAIN parser : Has(firstStored, q) /\ parser[q] = firstStored[q]
    /\ lastGet.op # "none" =>
          IF Has(lastGet.before, lastGet.key)
          THEN /\ ~lastGet.threw
               /\ lastGet.ret = ReadAs(lastGet.op, lastGet.before[lastGet.key])
               /\ parser = lastGet.before
          ELSE IF lastGet.op \in WithDefault
               THEN /\ ~lastGet.threw
                    /\ lastGet.ret = lastGet.def
                    /\ Has(parser, lastGet.key)
                    /\ ReadAs(lastGet.op, parser[lastGet.key]) = lastGet.def
                    /\ OthersKept(lastGet)
               ELSE lastGet.threw /\ parser = lastGet.before

====
